---- MODULE Spec2Model ----
(***************************************************************************)
(* Model of src/server.js: the Express service that ingests tank-level     *)
(* readings (POST /api/leituras) and serves the last 24 hours of readings  *)
(* of a device (GET /api/leituras/:esp_id) over a PostgreSQL table.        *)
(*                                                                         *)
(* JavaScript values that arrive in a JSON body are modelled as records    *)
(* [t, s, n, a]: t is the JavaScript type, s the characters of a string,   *)
(* n the value of a number or boolean, a the elements of an array (each a  *)
(* string).  A string is a sequence of characters, each a one-character   *)
(* string or the name U+XXXX of its code point, so that the coercions the  *)
(* handlers apply (ToString, ToNumber, parseFloat, the regular expression) *)
(* are computed and not assumed.  Numbers are doubles: a literal is rounded *)
(* to the nearest one, ties to even.                                       *)
(*                                                                         *)
(* Each async handler is split at its single await: the part that runs up  *)
(* to pool.query, the database executing the statement, and the            *)
(* continuation that sends the response.                                   *)
(***************************************************************************)
EXTENDS Integers, Sequences, FiniteSets

\* ---------------------------------------------------------------- bounds
\* Rows the table may hold.
MaxRows == 3
\* Rows the table may hold when every shape of body is posted.
MaxRowsInputs == 1
\* Values the id sequence may hand out (a failed insert may burn one).
MaxSeq == 4
\* Last hour the database clock reaches.
MaxClock == 36

\* Requests in flight at once: two, so that any two handlers interleave.
Slots == {1, 2}
\* The database clock advances in steps of 12 hours.
TickSteps == {12}

\* ----------------------------------------------------- JavaScript values
DigitChars == <<"0", "1", "2", "3", "4", "5", "6", "7", "8", "9">>
DigitSet == {DigitChars[i] : i \in 1..10}

Undefined == [t |-> "undefined", s |-> <<>>, n |-> 0, a |-> <<>>]
Null == [t |-> "null", s |-> <<>>, n |-> 0, a |-> <<>>]
Bool(b) == [t |-> "boolean", s |-> <<>>, n |-> IF b THEN 1 ELSE 0, a |-> <<>>]
\* A JSON number; the bodies posted carry integers.
Num(k) == [t |-> "number", s |-> <<>>, n |-> k, a |-> <<>>]
Str(cs) == [t |-> "string", s |-> cs, n |-> 0, a |-> <<>>]
Arr(xs) == [t |-> "array", s |-> <<>>, n |-> 0, a |-> xs]
\* A plain object, {}.
Obj == [t |-> "object", s |-> <<>>, n |-> 0, a |-> <<>>]
\* An object whose own toString and valueOf are not callable, such as
\* {"toString": 1, "valueOf": 1}: converting it to a primitive throws.
BadObj == [t |-> "badobject", s |-> <<>>, n |-> 0, a |-> <<>>]

IsDigit(c) == c \in DigitSet
DigitVal(c) == CHOOSE d \in 0..9 : DigitChars[d + 1] = c
AllDigits(cs) == \A i \in 1..Len(cs) : IsDigit(cs[i])

RECURSIVE DecStr(_)
\* Number.prototype.toString for an integer.
DecStr(k) ==
  IF k < 0 THEN <<"-">> \o DecStr(-k)
  ELSE IF k < 10 THEN <<DigitChars[k + 1]>>
  ELSE DecStr(k \div 10) \o <<DigitChars[(k % 10) + 1]>>

RECURSIVE Join(_)
\* Array.prototype.join(",") over an array of strings.
Join(xs) ==
  IF xs = <<>> THEN <<>>
  ELSE IF Len(xs) = 1 THEN xs[1]
  ELSE xs[1] \o <<",">> \o Join(Tail(xs))

\* Converting v to a primitive throws a TypeError.
ThrowsOnCoerce(v) == v.t = "badobject"
CoerceMessage == "Cannot convert object to primitive value"

\* ToString(v), for a v that does not throw.
ToString(v) ==
  CASE v.t = "string" -> v.s
    [] v.t = "number" -> DecStr(v.n)
    [] v.t = "boolean" -> IF v.n = 1 THEN <<"t", "r", "u", "e">>
                          ELSE <<"f", "a", "l", "s", "e">>
    [] v.t = "null" -> <<"n", "u", "l", "l">>
    [] v.t = "undefined" -> <<"u", "n", "d", "e", "f", "i", "n", "e", "d">>
    [] v.t = "array" -> Join(v.a)
    [] OTHER -> <<"[", "o", "b", "j", "e", "c", "t", " ",
                  "O", "b", "j", "e", "c", "t", "]">>

\* ------------------------------------------------------ natural numbers
\* A natural number of any size is the sequence of its decimal digits, most
\* significant first and without leading zeros; zero is <<0>>.
RECURSIVE Digits(_)
Digits(k) == IF k < 10 THEN <<k>> ELSE Digits(k \div 10) \o <<k % 10>>

\* The digits of a digit string.
DigitsOf(cs) == [i \in 1..Len(cs) |-> DigitVal(cs[i])]

DigitAt(ds, i) == IF i \in 1..Len(ds) THEN ds[i] ELSE 0

\* ds without its leading zeros.
Strip(ds) ==
  IF \A i \in 1..Len(ds) : ds[i] = 0 THEN <<0>>
  ELSE SubSeq(ds,
              CHOOSE i \in 1..Len(ds) : ds[i] # 0 /\ \A j \in 1..(i - 1) : ds[j] = 0,
              Len(ds))

\* The zeros ds ends with.
Zeros(ds) ==
  IF \A i \in 1..Len(ds) : ds[i] = 0 THEN 0
  ELSE Len(ds) - (CHOOSE i \in 1..Len(ds) :
                    ds[i] # 0 /\ \A j \in (i + 1)..Len(ds) : ds[j] = 0)

Odd(ds) == ds[Len(ds)] % 2 = 1

\* 2 * ds + b, for a bit b: a digit takes a carry when the digit after it is
\* 5 or more.
TwicePlus(ds, b) ==
  Strip([i \in 1..(Len(ds) + 1) |->
           (2 * DigitAt(ds, i - 1) + (IF DigitAt(ds, i) >= 5 THEN 1 ELSE 0)
              + (IF i = Len(ds) + 1 THEN b ELSE 0)) % 10])

Twice(ds) == TwicePlus(ds, 0)

\* ds \div 2: a digit takes 10 when the digit before it is odd.
Half(ds) ==
  Strip([i \in 1..Len(ds) |-> (ds[i] + 10 * (DigitAt(ds, i - 1) % 2)) \div 2])

\* ds + 1
Succ(ds) ==
  IF \A i \in 1..Len(ds) : ds[i] = 9 THEN <<1>> \o [i \in 1..Len(ds) |-> 0]
  ELSE [i \in 1..Len(ds) |->
          IF \A j \in i..Len(ds) : ds[j] = 9 THEN 0
          ELSE IF \A j \in (i + 1)..Len(ds) : ds[j] = 9 THEN ds[i] + 1
          ELSE ds[i]]

\* a < b
Less(a, b) ==
  \/ Len(a) < Len(b)
  \/ /\ Len(a) = Len(b)
     /\ \E i \in 1..Len(a) : a[i] < b[i] /\ \A j \in 1..(i - 1) : a[j] = b[j]

\* 5 * ds
TimesFive(ds) == Half(ds \o <<0>>)

DropLast(ds) == IF Len(ds) = 1 THEN <<0>> ELSE SubSeq(ds, 1, Len(ds) - 1)
\* ds \div 5
Fifth(ds) == DropLast(Twice(ds))

\* The four below take n steps, half of them and then the rest, so that
\* the depth of the evaluation grows with the logarithm of n; zero stays
\* zero.
RECURSIVE TwiceN(_, _)
\* ds * 2^n
TwiceN(ds, n) ==
  IF n = 0 \/ ds = <<0>> THEN ds
  ELSE IF n = 1 THEN Twice(ds)
  ELSE TwiceN(TwiceN(ds, n \div 2), n - n \div 2)

RECURSIVE HalfN(_, _)
\* ds \div 2^n
HalfN(ds, n) ==
  IF n = 0 \/ ds = <<0>> THEN ds
  ELSE IF n = 1 THEN Half(ds)
  ELSE HalfN(HalfN(ds, n \div 2), n - n \div 2)

RECURSIVE TimesFiveN(_, _)
\* ds * 5^n
TimesFiveN(ds, n) ==
  IF n = 0 \/ ds = <<0>> THEN ds
  ELSE IF n = 1 THEN TimesFive(ds)
  ELSE TimesFiveN(TimesFiveN(ds, n \div 2), n - n \div 2)

RECURSIVE FifthN(_, _)
\* ds \div 5^n
FifthN(ds, n) ==
  IF n = 0 \/ ds = <<0>> THEN ds
  ELSE IF n = 1 THEN Fifth(ds)
  ELSE FifthN(FifthN(ds, n \div 2), n - n \div 2)

\* ------------------------------------------------------ Number values
\* A JavaScript number: NaN, an infinity (inf is its sign), or a finite
\* double, held as the decimal it is exactly: (neg: minus) m * 10^e, m a
\* natural number that does not end in 0; zero is m = <<0>>, e = 0.  Every
\* double is such a decimal, and equal doubles are equal records.  The sign
\* of zero is not kept: -0 is 0.
NaN == [nan |-> TRUE, inf |-> 0, neg |-> FALSE, m |-> <<0>>, e |-> 0]
Infinity(sign) == [nan |-> FALSE, inf |-> sign, neg |-> FALSE, m |-> <<0>>, e |-> 0]
Zero == [nan |-> FALSE, inf |-> 0, neg |-> FALSE, m |-> <<0>>, e |-> 0]

\* The decimal ds * 10^e, for ds # 0 that ends in z zeros.
Finite(ds, e, z) ==
  [nan |-> FALSE, inf |-> 0, neg |-> FALSE,
   m |-> SubSeq(ds, 1, Len(ds) - z), e |-> e + z]

\* The natural number t, not zero, times 10^e.
Exact(t, e) == Finite(t, e, Zeros(t))

\* The double m * 2^q as a decimal: 2^q is 5^-q * 10^q when q < 0.
Expand(m, q) ==
  IF m = <<0>> THEN Zero
  ELSE IF q < 0 THEN Exact(TimesFiveN(m, -q), q)
  ELSE Exact(TwiceN(m, q), 0)

\* 2^53: a double has 53 significant bits.
Two53 == <<9, 0, 0, 7, 1, 9, 9, 2, 5, 4, 7, 4, 0, 9, 9, 2>>
\* The binary exponent of the least significant bit of the smallest and of
\* the largest doubles.
MinExp == -1074
MaxExp == 971

\* m * 2^q, m of at most 53 bits, or an infinity when it is 2^1024 or more.
Ranged(m, q) ==
  IF q > MaxExp \/ (q = MaxExp /\ m = Two53) THEN Infinity(1) ELSE Expand(m, q)

\* Bits that k is sure to lose: those below the least exponent, and those
\* that make it more than 53 bits long (10^(Len(k) - 1) is more than
\* 2^(3 * (Len(k) - 1))).
Spare(k, q) ==
  IF 3 * (Len(k) - 1) - 53 > MinExp - q THEN 3 * (Len(k) - 1) - 53 ELSE MinExp - q

RECURSIVE Shift(_, _, _, _)
\* k loses n bits, h being k without n - 1 of them.
Lose(k, q, s, n, h) == Shift(Half(h), q + n, Odd(h), s \/ TwiceN(h, n - 1) # k)

\* The double nearest to (k + f) * 2^q, ties to the even one: k loses bits
\* until it has 53 or fewer and q is an exponent a double can have; r is the
\* last bit lost, s says that a bit lost before it or the fraction f, which
\* is less than 1, is not zero.
Shift(k, q, r, s) ==
  IF Spare(k, q) > 1
  THEN Lose(k, q, r \/ s, Spare(k, q), HalfN(k, Spare(k, q) - 1))
  ELSE IF ~Less(k, Two53) \/ q < MinExp
  THEN Shift(Half(k), q + 1, Odd(k), s \/ r)
  ELSE Ranged(IF r /\ (s \/ Odd(k)) THEN Succ(k) ELSE k, q)

\* The bits n is shifted by before it is divided by 5^k, so that the
\* quotient has more than 64 bits: 5^3 < 2^7.
Scale(k) == (7 * k + 2) \div 3 + 64

\* The double nearest to (a / 5^k) * 2^q, d being a \div 5^k.
Inexact(a, d, k, q) == Shift(d, q, FALSE, TimesFiveN(d, k) # a)

Divided(a, k, q) == Inexact(a, FifthN(a, k), k, q)

\* The double nearest to (n / 5^k) * 2^q.
Quotient(n, k, q) == Divided(TwiceN(n, Scale(k)), k, q - Scale(k))

\* The double nearest to n * 10^e, for n # 0 that does not end in 0: 10^e is
\* 5^e * 2^e.
Nearest(n, e) ==
  IF Len(n) + e > 309 THEN Infinity(1)
  ELSE IF Len(n) + e < -323 THEN Zero
  ELSE IF e >= 0 THEN Shift(TimesFiveN(n, e), e, FALSE, FALSE)
  ELSE Quotient(n, -e, e)

NearestOf(n, e, z) ==
  IF n = <<0>> THEN Zero ELSE Nearest(SubSeq(n, 1, Len(n) - z), e + z)

NearestTo(n, e) == NearestOf(n, e, Zeros(n))

\* The Number value for the digits ds times 10^e.
Decimal(ds, e) == NearestTo(Strip(ds), e)

\* The Number value of the integer k.
Whole(k) ==
  IF k < 0 THEN [Decimal(Digits(-k), 0) EXCEPT !.neg = TRUE]
  ELSE Decimal(Digits(k), 0)

Negate(x) ==
  [nan |-> x.nan, inf |-> -x.inf, neg |-> x.m # <<0>> /\ ~x.neg, m |-> x.m, e |-> x.e]

\* WhiteSpace and LineTerminator code points.  A character is a string: the
\* character itself, or the name U+XXXX of a code point that has no
\* spelling in a module.
WhiteSpace ==
  {"\t", "\n", "U+000B", "\f", "\r", " ", "U+00A0", "U+1680",
   "U+2000", "U+2001", "U+2002", "U+2003", "U+2004", "U+2005", "U+2006",
   "U+2007", "U+2008", "U+2009", "U+200A", "U+2028", "U+2029", "U+202F",
   "U+205F", "U+3000", "U+FEFF"}

\* The characters at the start of cs that are in the set.
Leading(cs, set) ==
  IF \A i \in 1..Len(cs) : cs[i] \in set THEN Len(cs)
  ELSE (CHOOSE i \in 1..Len(cs) : cs[i] \notin set /\ \A j \in 1..(i - 1) : cs[j] \in set) - 1

\* The characters at the end of cs that are in the set.
Trailing(cs, set) ==
  IF \A i \in 1..Len(cs) : cs[i] \in set THEN Len(cs)
  ELSE Len(cs) - (CHOOSE i \in 1..Len(cs) :
                    cs[i] \notin set /\ \A j \in (i + 1)..Len(cs) : cs[j] \in set)

TrimLeft(cs) == SubSeq(cs, Leading(cs, WhiteSpace) + 1, Len(cs))

TrimRight(cs) == SubSeq(cs, 1, Len(cs) - Trailing(cs, WhiteSpace))

\* The longest run of decimal digits cs starts with.
DigitPrefix(cs) == SubSeq(cs, 1, Leading(cs, DigitSet))

InfinityChars == <<"I", "n", "f", "i", "n", "i", "t", "y">>
StartsWith(cs, pre) == Len(cs) >= Len(pre) /\ SubSeq(cs, 1, Len(pre)) = pre

\* The digits after the point that follows the first k characters of cs,
\* none when no point follows them.
FractionDigits(cs, k) ==
  IF Len(cs) > k /\ cs[k + 1] = "." THEN DigitPrefix(SubSeq(cs, k + 2, Len(cs)))
  ELSE <<>>

\* The mantissa made of the digits ip before the point and fd after it: the
\* point counts when a digit stands on one side of it.
Mantissa(cs, ip, fd) ==
  [ok |-> ip \o fd # <<>>, digits |-> ip \o fd, scale |-> Len(fd),
   len |-> Len(ip) + (IF Len(cs) > Len(ip) /\ cs[Len(ip) + 1] = "." /\ ip \o fd # <<>>
                      THEN 1 + Len(fd) ELSE 0)]

MantissaAfter(cs, ip) == Mantissa(cs, ip, FractionDigits(cs, Len(ip)))

\* The digits and the optional fraction cs starts with.
ScanMantissa(cs) == MantissaAfter(cs, DigitPrefix(cs))

RECURSIVE IntVal(_)
\* The integer of at most 9 digits ds.
IntVal(ds) ==
  IF Len(ds) = 1 THEN ds[1]
  ELSE IntVal(SubSeq(ds, 1, Len(ds) - 1)) * 10 + ds[Len(ds)]

\* The value of the digits of an exponent; one of more than 9 digits counts
\* as 999999999, which no mantissa brings back into the range of a double.
Capped(ds) == IF Len(ds) > 9 THEN 999999999 ELSE IntVal(ds)

ExponentVal(ed) == Capped(Strip(DigitsOf(ed)))

\* An ExponentPart with the digits ed, signed or not.
Exponent(cs, signed, ed) ==
  [ok |-> ed # <<>>,
   val |-> IF signed /\ cs[2] = "-" THEN -ExponentVal(ed) ELSE ExponentVal(ed),
   len |-> 1 + (IF signed THEN 1 ELSE 0) + Len(ed)]

ExponentSigned(cs, signed) ==
  Exponent(cs, signed,
           IF cs # <<>> /\ cs[1] \in {"e", "E"}
           THEN DigitPrefix(SubSeq(cs, IF signed THEN 3 ELSE 2, Len(cs)))
           ELSE <<>>)

\* The ExponentPart cs starts with: e or E, an optional sign, and at least
\* one digit.
ScanExponent(cs) ==
  ExponentSigned(cs, Len(cs) >= 2 /\ cs[1] \in {"e", "E"} /\ cs[2] \in {"+", "-"})

\* The literal made of a mantissa and the exponent scanned after it.
Literal(mant, ex) ==
  [ok |-> TRUE,
   val |-> Decimal(DigitsOf(mant.digits), (IF ex.ok THEN ex.val ELSE 0) - mant.scale),
   len |-> mant.len + (IF ex.ok THEN ex.len ELSE 0)]

LiteralAfter(cs, mant) ==
  IF ~mant.ok THEN [ok |-> FALSE, val |-> NaN, len |-> 0]
  ELSE Literal(mant, ScanExponent(SubSeq(cs, mant.len + 1, Len(cs))))

\* The longest StrUnsignedDecimalLiteral cs starts with: Infinity, or digits
\* with an optional fraction and an optional exponent (an exponent without a
\* digit is not part of it).  ok says there is one, val is its value and len
\* its length.
ScanDecimal(cs) ==
  IF StartsWith(cs, InfinityChars)
  THEN [ok |-> TRUE, val |-> Infinity(1), len |-> 8]
  ELSE LiteralAfter(cs, ScanMantissa(cs))

\* The literal u, found after a sign or without one.
Signed(cs, signed, u) ==
  IF ~u.ok THEN u
  ELSE [ok |-> TRUE,
        val |-> IF signed /\ Head(cs) = "-" THEN Negate(u.val) ELSE u.val,
        len |-> u.len + (IF signed THEN 1 ELSE 0)]

SignedAfter(cs, signed) ==
  Signed(cs, signed, ScanDecimal(IF signed THEN Tail(cs) ELSE cs))

\* The longest StrDecimalLiteral cs starts with: an optional sign, then an
\* unsigned literal.
ScanSigned(cs) == SignedAfter(cs, cs # <<>> /\ Head(cs) \in {"+", "-"})

RadixChars == <<"0", "1", "2", "3", "4", "5", "6", "7", "8", "9",
                "a", "b", "c", "d", "e", "f">>
UpperHex == <<"A", "B", "C", "D", "E", "F">>
\* The value of c as a digit, 16 when it is none.
RadixDigit(c) ==
  IF \E d \in 1..16 : RadixChars[d] = c
  THEN (CHOOSE d \in 1..16 : RadixChars[d] = c) - 1
  ELSE IF \E d \in 1..6 : UpperHex[d] = c
  THEN (CHOOSE d \in 1..6 : UpperHex[d] = c) + 9
  ELSE 16

\* The bits of a digit of the radix.
RadixBits(radix) == CASE radix = 16 -> 4 [] radix = 8 -> 3 [] OTHER -> 1

\* The bits the digits cs spell, w to a digit, without the leading zeros.
Bits(cs, w) ==
  Strip([i \in 1..(Len(cs) * w) |->
           (RadixDigit(cs[(i - 1) \div w + 1]) \div 2^((w - 1) - ((i - 1) % w))) % 2])

RECURSIVE FromBits(_)
\* The natural number of the bits bs.
FromBits(bs) ==
  IF bs = <<>> THEN <<0>>
  ELSE TwicePlus(FromBits(SubSeq(bs, 1, Len(bs) - 1)), bs[Len(bs)])

\* The double nearest to the number of the bits bs: its first 64 bits, times
\* 2 to the number of those that follow, and a fraction when one of these
\* is set.
Leftmost(bs, k) ==
  Shift(FromBits(SubSeq(bs, 1, k)), Len(bs) - k, FALSE,
        \E i \in (k + 1)..Len(bs) : bs[i] = 1)

BitsValue(bs) == Leftmost(bs, IF Len(bs) < 64 THEN Len(bs) ELSE 64)

\* The Number value of the digits cs in the radix.
RadixVal(cs, radix) == BitsValue(Bits(cs, RadixBits(radix)))

\* The radix the prefix of cs announces: 0x, 0o or 0b before at least one
\* more character; 0 when there is none.
PrefixRadix(cs) ==
  IF Len(cs) < 3 \/ cs[1] # "0" THEN 0
  ELSE IF cs[2] \in {"x", "X"} THEN 16
  ELSE IF cs[2] \in {"o", "O"} THEN 8
  ELSE IF cs[2] \in {"b", "B"} THEN 2
  ELSE 0

DigitsOfRadix(cs, radix) ==
  IF radix # 0 /\ \A i \in 3..Len(cs) : RadixDigit(cs[i]) < radix THEN radix ELSE 0

\* The radix of a NonDecimalIntegerLiteral (0x, 0o, 0b and digits of that
\* radix), 0 when cs is none.
LiteralRadix(cs) == DigitsOfRadix(cs, PrefixRadix(cs))

\* The value of a decimal literal that is the whole of t.
WholeLiteral(t, d) == IF d.ok /\ d.len = Len(t) THEN d.val ELSE NaN

NumericLiteral(t, radix) ==
  IF t = <<>> THEN Zero
  ELSE IF radix # 0 THEN RadixVal(SubSeq(t, 3, Len(t)), radix)
  ELSE WholeLiteral(t, ScanSigned(t))

TrimmedToNumber(t) == NumericLiteral(t, LiteralRadix(t))

\* StringToNumber: white space is trimmed; the empty string is 0; a
\* hexadecimal, octal or binary literal, or a decimal literal that is the
\* whole string, is its value; anything else is NaN.
StringToNumber(cs) == TrimmedToNumber(TrimRight(TrimLeft(cs)))

\* ToNumber(v), for a v that does not throw.
ToNumber(v) ==
  IF v.t = "undefined" THEN NaN
  ELSE IF v.t \in {"number", "boolean", "null"} THEN Whole(v.n)
  ELSE StringToNumber(ToString(v))

\* The global isNaN: ToNumber, then the NaN test.
isNaN(v) == ToNumber(v).nan

ValueOrNaN(d) == IF d.ok THEN d.val ELSE NaN

\* The global parseFloat: ToString, leading white space skipped, then the
\* value of the longest decimal literal the string starts with, NaN when it
\* starts with none.
parseFloat(v) == ValueOrNaN(ScanSigned(TrimLeft(ToString(v))))

\* !v
Falsy(v) ==
  \/ v.t \in {"undefined", "null"}
  \/ v.t \in {"boolean", "number"} /\ v.n = 0
  \/ v.t = "string" /\ v.s = <<>>

\* /^\d{8}$/ matched against a string.
MatchesEspId(cs) == Len(cs) = 8 /\ AllDigits(cs)

\* /^\d{8}$/.test(v): the argument is converted with ToString first.
EspIdRegexTest(v) == MatchesEspId(ToString(v))

\* --------------------------------------------------------------- inputs
D8a == <<"1", "2", "3", "4", "5", "6", "7", "8">>
D8b == <<"8", "7", "6", "5", "4", "3", "2", "1">>
D7 == <<"1", "2", "3", "4", "5", "6", "7">>
D9 == <<"1", "2", "3", "4", "5", "6", "7", "8", "9">>
D7x == <<"1", "2", "3", "4", "5", "6", "7", "a">>

Body(e, l1, l2) == [esp_id |-> e, nivel_tanque1 |-> l1, nivel_tanque2 |-> l2]

\* JSON bodies posted to /api/leituras.
Bodies ==
  { Body(Str(D8a), Num(0), Num(5)),
    Body(Str(D8b), Num(5), Str(<<"7">>)),
    Body(Str(D7), Num(5), Num(5)),
    Body(Str(D9), Num(5), Num(5)),
    Body(Str(D7x), Num(5), Num(5)),
    Body(Num(12345678), Num(5), Num(5)),
    Body(Num(1234567), Num(5), Num(5)),
    Body(Arr(<<D8a>>), Num(5), Num(5)),
    Body(Obj, Num(5), Num(5)),
    Body(BadObj, Num(5), Num(5)),
    Body(Undefined, Num(5), Num(5)),
    Body(Null, Num(5), Num(5)),
    Body(Str(<<>>), Num(0), Num(0)),
    Body(Str(D8a), Undefined, Num(5)),
    Body(Str(D8a), Num(5), Undefined),
    Body(Str(D7), Num(5), Undefined),
    Body(Str(D8a), Null, Num(5)),
    Body(Str(D8a), Num(5), Str(<<>>)),
    Body(Str(D8a), Bool(TRUE), Num(5)),
    Body(Str(D8a), Num(5), Arr(<<>>)),
    Body(Str(D8a), Str(<<"a", "b", "c">>), Num(5)),
    Body(Str(D8a), Num(5), Str(<<"7", "a">>)),
    Body(Str(D8a), BadObj, Num(5)),
    Body(Str(D8a), Str(<<"7", ".", "5">>), Num(5)),
    Body(Str(D8a), Num(5), Str(<<"1", "e", "3">>)),
    Body(Str(D8a), Str(<<"0", "x", "1", "0">>), Num(5)),
    Body(Str(D8a), Str(<<"\t", "7">>), Num(5)),
    Body(Str(D8a), Num(5), Str(<<"7", "e">>)),
    Body(Str(D8a), Str(<<"U+2000", "7">>), Num(5)),
    Body(Str(D8a), Num(5), Str(<<"7", "U+3000">>)),
    Body(Str(D8a), Str(<<"0", ".", "1">>), Num(5)) }

ConcBodies ==
  { Body(Str(D8a), Num(0), Num(5)),
    Body(Str(D8b), Num(5), Str(<<"7">>)),
    Body(Str(D7), Num(5), Num(5)) }
ConcParams == {D8a, D7}

QueryBodies ==
  { Body(Str(D8a), Num(0), Num(5)),
    Body(Str(D8b), Num(5), Str(<<"7">>)),
    Body(Num(12345678), Num(5), Num(5)) }
QueryParams == {D8a, D8b, D7}

\* Values of the :esp_id path parameter (always a string).
Params == {D8a, D8b, D7, D9, D7x}

\* Messages of the errors pool.query rejects with.
DbErrors == {"connection refused"}

\* --------------------------------------------------------------- records
NoBody == Body(Undefined, Undefined, Undefined)
Request(route, body, param) == [route |-> route, body |-> body, esp_id |-> param]
NoRequest == Request("", NoBody, <<>>)

Row(id, e, l1, l2, at) ==
  [id |-> id, esp_id |-> e, nivel_tanque1 |-> l1, nivel_tanque2 |-> l2,
   data_hora |-> at]

\* The data object of a 201 response.
PostData(id, e, f1, f2, at) ==
  [id |-> id, esp_id |-> e, nivel_tanque1 |-> f1, nivel_tanque2 |-> f2,
   data_hora |-> at]
NoPostData == PostData(0, Undefined, NaN, NaN, 0)

\* What pool.query settled with: RETURNING id, data_hora of an insert (ret),
\* the rows of a select (list), or the error it rejected with.
DbResult(ok, ret, list, err) == [ok |-> ok, ret |-> ret, list |-> list, error |-> err]
NoRet == [id |-> 0, data_hora |-> 0]
NoDbResult == DbResult(FALSE, NoRet, <<>>, "")

Response(status, err, details, post, count, data, ts) ==
  [status |-> status, error |-> err, details |-> details, post |-> post,
   count |-> count, data |-> data, timestamp |-> ts]
NoResponse == Response(0, "", "", NoPostData, 0, <<>>, 0)
ErrorResponse(status, err, details) ==
  Response(status, err, details, NoPostData, 0, <<>>, 0)

\* ----------------------------------------------------------------- state
VARIABLES
  rows,     \* table leituras_tanques, in insertion order
  nextId,   \* next value of the id sequence
  now,      \* the database clock, in hours
  pc,       \* per slot: where the request it serves stands
  req,      \* per slot: the request
  calls,    \* per slot: pool.query calls the request has issued
  dbres,    \* per slot: what its pool.query settled with
  resp      \* per slot: the response sent

vars == <<rows, nextId, now, pc, req, calls, dbres, resp>>
db == <<rows, nextId, now>>

Init ==
  /\ rows = <<>>
  /\ nextId = 1
  /\ now = 0
  /\ pc = [s \in Slots |-> "idle"]
  /\ req = [s \in Slots |-> NoRequest]
  /\ calls = [s \in Slots |-> 0]
  /\ dbres = [s \in Slots |-> NoDbResult]
  /\ resp = [s \in Slots |-> NoResponse]

\* A request arrives on a slot that serves none.
Accept(s, r) ==
  /\ pc[s] \in {"idle", "done"}
  /\ req' = [req EXCEPT ![s] = r]
  /\ dbres' = [dbres EXCEPT ![s] = NoDbResult]

\* res.status(...).json(...)
Respond(s, r) ==
  /\ pc' = [pc EXCEPT ![s] = "done"]
  /\ resp' = [resp EXCEPT ![s] = r]

\* The handler responds without having called pool.query.
RespondAtOnce(s, r) ==
  /\ Respond(s, r)
  /\ calls' = [calls EXCEPT ![s] = 0]

\* await pool.query(...): the handler suspends until the query settles.
AwaitQuery(s, label) ==
  /\ pc' = [pc EXCEPT ![s] = label]
  /\ resp' = [resp EXCEPT ![s] = NoResponse]
  /\ calls' = [calls EXCEPT ![s] = 1]

\* pool.query settles and the handler is ready to resume.
Settle(s, label, r) ==
  /\ pc' = [pc EXCEPT ![s] = label]
  /\ dbres' = [dbres EXCEPT ![s] = r]
  /\ UNCHANGED <<req, calls, resp>>

\* ---------------------------------------------------------------- GET /
Root(s) ==
  /\ Accept(s, Request("GET /", NoBody, <<>>))
  /\ RespondAtOnce(s, Response(200, "", "", NoPostData, 0, <<>>, 0))
  /\ UNCHANGED db

\* ------------------------------------------------------- unmatched route
NotFound(s) ==
  /\ Accept(s, Request("OTHER", NoBody, <<>>))
  /\ RespondAtOnce(s, ErrorResponse(404, "Rota não encontrada", ""))
  /\ UNCHANGED db

\* ------------------------------------------------------- GET /api/status
StatusStart(s) ==
  /\ Accept(s, Request("GET /api/status", NoBody, <<>>))
  /\ AwaitQuery(s, "awaitStatus")
  /\ UNCHANGED db

\* SELECT NOW()
DbStatusOk(s) ==
  /\ pc[s] = "awaitStatus"
  /\ Settle(s, "gotStatus", DbResult(TRUE, [id |-> 0, data_hora |-> now], <<>>, ""))
  /\ UNCHANGED db

DbStatusFail(s) ==
  /\ pc[s] = "awaitStatus"
  /\ \E e \in DbErrors : Settle(s, "gotStatus", DbResult(FALSE, NoRet, <<>>, e))
  /\ UNCHANGED db

StatusResume(s) ==
  /\ pc[s] = "gotStatus"
  /\ IF dbres[s].ok
     THEN Respond(s, Response(200, "", "", NoPostData, 0, <<>>, dbres[s].ret.data_hora))
     ELSE Respond(s, ErrorResponse(500, dbres[s].error, ""))
  /\ UNCHANGED <<db, req, calls, dbres>>

\* ---------------------------------------------------- POST /api/leituras
\* Where the validation of the handler ends for a body.
PostValidation(b) ==
  IF Falsy(b.esp_id) \/ b.nivel_tanque1 = Undefined \/ b.nivel_tanque2 = Undefined
  THEN "incomplete"
  ELSE IF ThrowsOnCoerce(b.esp_id) THEN "throw"
  ELSE IF ~EspIdRegexTest(b.esp_id) THEN "bad_esp_id"
  ELSE IF ThrowsOnCoerce(b.nivel_tanque1) THEN "throw"
  ELSE IF isNaN(b.nivel_tanque1) THEN "bad_value"
  ELSE IF ThrowsOnCoerce(b.nivel_tanque2) THEN "throw"
  ELSE IF isNaN(b.nivel_tanque2) THEN "bad_value"
  ELSE "insert"

Incomplete == ErrorResponse(400, "Dados incompletos", "")
BadEspId == ErrorResponse(400, "ESP_ID inválido", "")
BadValue == ErrorResponse(400, "Valores inválidos", "")
PostFailed(msg) == ErrorResponse(500, "Erro interno do servidor", msg)

\* What the handler does once the validation has ended in v.
PostOutcome(s, v) ==
  CASE v = "incomplete" -> RespondAtOnce(s, Incomplete)
    [] v = "bad_esp_id" -> RespondAtOnce(s, BadEspId)
    [] v = "bad_value" -> RespondAtOnce(s, BadValue)
    [] v = "throw" -> RespondAtOnce(s, PostFailed(CoerceMessage))
    [] OTHER -> AwaitQuery(s, "awaitInsert")

PostStart(s, b) ==
  /\ Accept(s, Request("POST /api/leituras", b, <<>>))
  /\ PostOutcome(s, PostValidation(b))
  /\ UNCHANGED db

\* Mutation: the two levels are bound to each other's placeholder.
InsertedRowSwapped(b, id, at) ==
  Row(id, b.esp_id, b.nivel_tanque2, b.nivel_tanque1, at)

\* VALUES ($1, $2, $3, NOW()) with [esp_id, nivel_tanque1, nivel_tanque2],
\* the id drawn from the sequence.
InsertedRow(b, id, at) == Row(id, b.esp_id, b.nivel_tanque1, b.nivel_tanque2, at)

\* Mutation: the statement overwrites the reading the device already has.
TableAfterUpsert(tbl, r) ==
  IF \E i \in 1..Len(tbl) : tbl[i].esp_id = r.esp_id
  THEN [i \in 1..Len(tbl) |-> IF tbl[i].esp_id = r.esp_id THEN r ELSE tbl[i]]
  ELSE Append(tbl, r)

\* The id column is the table's auto-increment key: each value drawn is the
\* one after the last value drawn.
NextVal(n) == n + 1

\* INSERT INTO leituras_tanques
TableAfterInsert(tbl, r) == Append(tbl, r)

\* The database executes the INSERT and returns id, data_hora.
DbInsertOk(s, cap) ==
  /\ pc[s] = "awaitInsert"
  /\ Len(rows) < cap
  /\ nextId <= MaxSeq
  /\ rows' = TableAfterInsert(rows, InsertedRow(req[s].body, nextId, now))
  /\ nextId' = NextVal(nextId)
  /\ Settle(s, "gotInsert", DbResult(TRUE, [id |-> nextId, data_hora |-> now], <<>>, ""))
  /\ UNCHANGED now

\* The INSERT fails: no row is written; the sequence value it drew, if it
\* got that far, is not given back.
DbInsertFail(s) ==
  /\ pc[s] = "awaitInsert"
  /\ \E e \in DbErrors : Settle(s, "gotInsert", DbResult(FALSE, NoRet, <<>>, e))
  /\ \/ UNCHANGED nextId
     \/ nextId <= MaxSeq /\ nextId' = NextVal(nextId)
  /\ UNCHANGED <<rows, now>>

\* Mutation: the id of the response is result.rowCount, not result.rows[0].id.
PostCreatedRowCount(b, ret) ==
  Response(201, "", "",
           PostData(1, b.esp_id, parseFloat(b.nivel_tanque1),
                    parseFloat(b.nivel_tanque2), ret.data_hora),
           0, <<>>, 0)

\* The 201 response.
PostCreated(b, ret) ==
  Response(201, "", "",
           PostData(ret.id, b.esp_id, parseFloat(b.nivel_tanque1),
                    parseFloat(b.nivel_tanque2), ret.data_hora),
           0, <<>>, 0)

\* Mutation: the catch block issues the insert again.
PostRejectedRetry(s) ==
  /\ pc' = [pc EXCEPT ![s] = "awaitInsert"]
  /\ calls' = [calls EXCEPT ![s] = @ + 1]
  /\ UNCHANGED <<db, req, dbres, resp>>

\* The catch block, entered when the awaited insert rejected.
PostRejected(s) ==
  /\ Respond(s, PostFailed(dbres[s].error))
  /\ UNCHANGED <<db, req, calls, dbres>>

PostResume(s) ==
  /\ pc[s] = "gotInsert"
  /\ IF dbres[s].ok
     THEN /\ Respond(s, PostCreated(req[s].body, dbres[s].ret))
          /\ UNCHANGED <<db, req, calls, dbres>>
     ELSE PostRejected(s)

\* ------------------------------------------- GET /api/leituras/:esp_id
WindowHours == 24

\* The text PostgreSQL holds for a value bound to the esp_id column: a string
\* as it is, a number in decimal, an array as an array literal.
SqlText(v) ==
  CASE v.t = "string" -> v.s
    [] v.t = "number" -> DecStr(v.n)
    [] OTHER -> <<"{">> \o Join([i \in 1..Len(v.a) |-> <<"\"">> \o v.a[i] \o <<"\"">>])
                \o <<"}">>

\* Mutation: the 24-hour condition is left out of the WHERE clause.
WhereClauseNoWindow(r, id, at) == SqlText(r.esp_id) = id

\* WHERE esp_id = $1 AND data_hora >= NOW() - INTERVAL '24 hours'
WhereClause(r, id, at) ==
  /\ SqlText(r.esp_id) = id
  /\ r.data_hora >= at - WindowHours

\* Mutation: ORDER BY data_hora ASC.
OrderByAsc(list) ==
  \A i, j \in 1..Len(list) : i < j => list[i].data_hora <= list[j].data_hora

\* ORDER BY data_hora DESC
OrderBy(list) ==
  \A i, j \in 1..Len(list) : i < j => list[i].data_hora >= list[j].data_hora

Permutations(n) ==
  {f \in [1..n -> 1..n] : \A i, j \in 1..n : f[i] = f[j] => i = j}

\* The row lists the SELECT may return: the rows the WHERE clause keeps, in
\* any order ORDER BY allows (rows of equal data_hora come in either order).
SelectResults(tbl, id, at) ==
  LET Keep(r) == WhereClause(r, id, at)
      kept == SelectSeq(tbl, Keep)
      lists == {[i \in 1..Len(kept) |-> kept[f[i]]] : f \in Permutations(Len(kept))}
  IN {l \in lists : OrderBy(l)}

GetFailed(msg) == ErrorResponse(500, "Erro ao buscar leituras", msg)

\* The 200 response.
GetFound(list) == Response(200, "", "", NoPostData, Len(list), list, 0)

GetStart(s, id) ==
  /\ Accept(s, Request("GET /api/leituras/:esp_id", NoBody, id))
  /\ IF ~EspIdRegexTest(Str(id))
     THEN RespondAtOnce(s, BadEspId)
     ELSE AwaitQuery(s, "awaitSelect")
  /\ UNCHANGED db

DbSelectOk(s) ==
  /\ pc[s] = "awaitSelect"
  /\ \E l \in SelectResults(rows, req[s].esp_id, now) :
       Settle(s, "gotSelect", DbResult(TRUE, NoRet, l, ""))
  /\ UNCHANGED db

DbSelectFail(s) ==
  /\ pc[s] = "awaitSelect"
  /\ \E e \in DbErrors : Settle(s, "gotSelect", DbResult(FALSE, NoRet, <<>>, e))
  /\ UNCHANGED db

\* The catch block, entered when the awaited select rejected.
GetRejected(s) ==
  /\ Respond(s, GetFailed(dbres[s].error))
  /\ UNCHANGED <<db, req, calls, dbres>>

GetResume(s) ==
  /\ pc[s] = "gotSelect"
  /\ IF dbres[s].ok
     THEN /\ Respond(s, GetFound(dbres[s].list))
          /\ UNCHANGED <<db, req, calls, dbres>>
     ELSE GetRejected(s)

\* ----------------------------------------------------------------- clock
\* Time passes on the database server.
Tick ==
  /\ \E d \in TickSteps : now + d <= MaxClock /\ now' = now + d
  /\ UNCHANGED <<rows, nextId, pc, req, calls, dbres, resp>>

\* Requests served on the slots S, POST bodies drawn from B and path
\* parameters from P, the table holding at most cap rows.
Serve(S, B, P, cap) ==
  \/ \E s \in S : Root(s)
  \/ \E s \in S : NotFound(s)
  \/ \E s \in S : StatusStart(s)
  \/ \E s \in S : DbStatusOk(s)
  \/ \E s \in S : DbStatusFail(s)
  \/ \E s \in S : StatusResume(s)
  \/ \E s \in S, b \in B : PostStart(s, b)
  \/ \E s \in S : DbInsertOk(s, cap)
  \/ \E s \in S : DbInsertFail(s)
  \/ \E s \in S : PostResume(s)
  \/ \E s \in S, id \in P : GetStart(s, id)
  \/ \E s \in S : DbSelectOk(s)
  \/ \E s \in S : DbSelectFail(s)
  \/ \E s \in S : GetResume(s)

\* Concurrent requests of two devices.
Next == Serve(Slots, ConcBodies, ConcParams, MaxRows)
Spec == Init /\ [][Next]_vars

\* One request at a time, over every shape of body and path parameter.
NextInputs == Serve({1}, Bodies, Params, MaxRowsInputs)
SpecInputs == Init /\ [][NextInputs]_vars

\* One request at a time while the clock advances.
NextQuery == Serve({1}, QueryBodies, QueryParams, MaxRows) \/ Tick
SpecQuery == Init /\ [][NextQuery]_vars

\* ---------------------------------------------------------------- claims
IsPost(s) == req[s].route = "POST /api/leituras"
IsGet(s) == req[s].route = "GET /api/leituras/:esp_id"
Present(v) == v # Undefined
AllPresent(b) ==
  Present(b.esp_id) /\ Present(b.nivel_tanque1) /\ Present(b.nivel_tanque2)
\* A string of exactly 8 decimal digits.
IsEspIdString(v) == v.t = "string" /\ Len(v.s) = 8 /\ AllDigits(v.s)
\* Slot s took a step of its own.
Acted(s) ==
  <<pc[s], req[s], calls[s], dbres[s], resp[s]>>
    # <<pc'[s], req'[s], calls'[s], dbres'[s], resp'[s]>>
InsertSucceeds(s) ==
  pc[s] = "awaitInsert" /\ pc'[s] = "gotInsert" /\ dbres'[s].ok
Created(s) == pc[s] = "done" /\ IsPost(s) /\ resp[s].status = 201
Found(s) == pc[s] = "done" /\ IsGet(s) /\ resp[s].status = 200

\* C1: the esp_id format check of POST /api/leituras and of
\* GET /api/leituras/:esp_id accepts a value if and only if it is a string of
\* exactly 8 decimal digits, and answers every other value with 400
\* 'ESP_ID inválido'.  (POST requests whose esp_id is falsy or that lack a
\* level never reach the check and are left out.)
C1_FormatCheckAcceptsOnlyDigitStrings ==
  \A s \in Slots :
    /\ (/\ pc[s] # "idle" /\ IsPost(s)
        /\ ~Falsy(req[s].body.esp_id)
        /\ req[s].body.nivel_tanque1.t = "number"
        /\ req[s].body.nivel_tanque2.t = "number")
       => (IsEspIdString(req[s].body.esp_id)
             <=> ~(pc[s] = "done" /\ resp[s] = BadEspId))
    /\ (pc[s] # "idle" /\ IsGet(s))
       => (IsEspIdString(Str(req[s].esp_id))
             <=> ~(pc[s] = "done" /\ resp[s] = BadEspId))

\* A level that cannot be parsed as a number: parseFloat finds no number.
CannotParse(v) == ~ThrowsOnCoerce(v) /\ parseFloat(v).nan

\* C2: a POST with all three fields present and a valid esp_id, one of whose
\* levels cannot be parsed as a number, is answered 400 'Valores inválidos'
\* and reaches no insert.
C2_UnparsableLevelRejected ==
  \A s \in Slots :
    (/\ pc[s] # "idle" /\ IsPost(s)
     /\ AllPresent(req[s].body)
     /\ IsEspIdString(req[s].body.esp_id)
     /\ ~ThrowsOnCoerce(req[s].body.nivel_tanque1)
     /\ ~ThrowsOnCoerce(req[s].body.nivel_tanque2)
     /\ (CannotParse(req[s].body.nivel_tanque1) \/ CannotParse(req[s].body.nivel_tanque2)))
    => (pc[s] = "done" /\ resp[s] = BadValue)

\* C3: ids grow strictly along the table in insertion order, so no two
\* readings share one, and the id a 201 response carries is the id of the
\* one row that holds the reading the request posted.
C3_IdsStrictlyIncrease ==
  /\ \A i, j \in 1..Len(rows) : i < j => rows[i].id < rows[j].id
  /\ \A s \in Slots :
       Created(s) =>
         \E i \in 1..Len(rows) :
           /\ rows[i].id = resp[s].post.id
           /\ rows[i].esp_id = req[s].body.esp_id
           /\ rows[i].data_hora = resp[s].post.data_hora
  /\ \A s, u \in Slots :
       (s # u /\ Created(s) /\ Created(u)) => resp[s].post.id # resp[u].post.id

\* Two concurrent POSTs were both answered 201 after an insert that failed
\* had drawn an id; the request on slot 1 holds the later id.
C3_Witness ==
  /\ Created(1) /\ Created(2)
  /\ resp[1].post.id > resp[2].post.id
  /\ nextId > Len(rows) + 1

\* C4: every step adds to the table exactly the readings of the inserts that
\* succeed in it, each carrying the posted esp_id and levels; a POST is
\* answered 201 exactly when its insert succeeded, and 400 or 500 otherwise,
\* and the step that sends a response adds no row.
C4_OneRowPerCreated ==
  [][ /\ Len(rows') = Len(rows) + Cardinality({s \in Slots : InsertSucceeds(s)})
      /\ \A s \in Slots :
           InsertSucceeds(s) =>
             LET r == rows'[Len(rows')]
             IN /\ r.esp_id = req[s].body.esp_id
                /\ r.nivel_tanque1 = req[s].body.nivel_tanque1
                /\ r.nivel_tanque2 = req[s].body.nivel_tanque2
                /\ r.id = dbres'[s].ret.id
      /\ \A s \in Slots :
           (Acted(s) /\ pc'[s] = "done" /\ req'[s].route = "POST /api/leituras") =>
             /\ resp'[s].status \in {201, 400, 500}
             /\ resp'[s].status = 201 <=> (pc[s] = "gotInsert" /\ dbres[s].ok)
             /\ rows' = rows
    ]_vars

\* One POST was answered 201 and a concurrent one 500 for a failed insert:
\* the table holds the one reading.
C4_Witness ==
  /\ Created(1)
  /\ pc[2] = "done" /\ IsPost(2) /\ resp[2].status = 500
  /\ Len(rows) = 1
  /\ rows[1].nivel_tanque1 # rows[1].nivel_tanque2

\* C5 as stated: the list a GET returns is strictly descending in data_hora
\* and in reverse order of insertion, whether or not the clock advanced
\* between the inserts.
C5_StrictlyDescending ==
  \A s \in Slots :
    Found(s) =>
      \A i, j \in 1..Len(resp[s].data) :
        i < j => /\ resp[s].data[i].data_hora > resp[s].data[j].data_hora
                 /\ resp[s].data[i].id > resp[s].data[j].id

\* C5, amended: the list a GET returns is descending in data_hora, not
\* strictly; readings of different data_hora come latest first, which is the
\* reverse order of their insertion.
C5_Descending ==
  \A s \in Slots :
    Found(s) =>
      \A i, j \in 1..Len(resp[s].data) :
        i < j => /\ resp[s].data[i].data_hora >= resp[s].data[j].data_hora
                 /\ (resp[s].data[i].data_hora # resp[s].data[j].data_hora
                       => resp[s].data[i].id > resp[s].data[j].id)

\* Three readings of one device, inserted at three different hours, come
\* back as [C, B, A].
C5_Witness ==
  /\ Found(1)
  /\ Len(resp[1].data) = 3
  /\ resp[1].data[1].data_hora > resp[1].data[2].data_hora
  /\ resp[1].data[2].data_hora > resp[1].data[3].data_hora
  /\ <<resp[1].data[1].id, resp[1].data[2].id, resp[1].data[3].id>> = <<3, 2, 1>>

\* The readings of device id that are at most 24 hours old at hour at.
Recent(id, at) ==
  {rows[i] : i \in {k \in 1..Len(rows) :
                      /\ SqlText(rows[k].esp_id) = id
                      /\ at - rows[k].data_hora <= 24}}
Range(list) == {list[i] : i \in 1..Len(list)}

\* C6: a select that succeeds returns exactly the readings of the requested
\* esp_id that are at most 24 hours old when it executes, each once; the 200
\* response carries that list as data and its length as count.
C6_LastDayOfTheDevice ==
  [][ \A s \in Slots :
        /\ (pc[s] = "awaitSelect" /\ pc'[s] = "gotSelect" /\ dbres'[s].ok) =>
             /\ Range(dbres'[s].list) = Recent(req[s].esp_id, now)
             /\ Len(dbres'[s].list) = Cardinality(Recent(req[s].esp_id, now))
        /\ (pc[s] = "gotSelect" /\ pc'[s] # "gotSelect") =>
             IF dbres[s].ok
             THEN /\ pc'[s] = "done"
                  /\ resp'[s].status = 200
                  /\ resp'[s].data = dbres[s].list
                  /\ resp'[s].count = Len(resp'[s].data)
             ELSE resp'[s].status # 200
    ]_vars

\* A GET was answered with one reading while the table holds an older reading
\* of the same device and a reading of another device.
C6_Witness ==
  /\ Found(1)
  /\ resp[1].count = 1
  /\ \E i \in 1..Len(rows) :
       /\ SqlText(rows[i].esp_id) = req[1].esp_id
       /\ rows[i].data_hora < resp[1].data[1].data_hora - 24
  /\ \E i \in 1..Len(rows) : SqlText(rows[i].esp_id) # req[1].esp_id

\* C7: the table only grows at its end: every row stays where and as it is,
\* and a step changes the table only when the insert of a POST succeeds in it.
C7_AppendOnly ==
  [][ /\ Len(rows') >= Len(rows)
      /\ \A i \in 1..Len(rows) : rows'[i] = rows[i]
      /\ rows' # rows =>
           \E s \in Slots : IsPost(s) /\ InsertSucceeds(s)
      /\ \A s \in Slots :
           (Acted(s) /\ req'[s].route # "POST /api/leituras") => rows' = rows
    ]_vars

\* With two readings of one device in the table, a GET returned both and an
\* unmatched request was answered 404.
C7_Witness ==
  /\ Len(rows) = 2
  /\ rows[1].esp_id = rows[2].esp_id
  /\ \E s \in Slots : Found(s) /\ resp[s].count = 2
  /\ \E s \in Slots : pc[s] = "done" /\ resp[s].status = 404

\* C8: the esp_id text of every reading in the table, and of every insert in
\* flight, matches ^\d{8}$.
C8_PersistedEspIdMatches ==
  /\ \A i \in 1..Len(rows) : MatchesEspId(SqlText(rows[i].esp_id))
  /\ \A s \in Slots :
       pc[s] = "awaitInsert" => MatchesEspId(SqlText(req[s].body.esp_id))

\* Every field carries a value: none is left out and none is null.
AllGiven(b) ==
  /\ AllPresent(b)
  /\ Null \notin {b.esp_id, b.nivel_tanque1, b.nivel_tanque2}

\* C9: a POST that lacks one of the three fields is answered 400
\* 'Dados incompletos', whatever the fields it has; one whose three fields
\* all carry a value, a level of 0 included, is not.
C9_IncompleteIffFieldMissing ==
  \A s \in Slots :
    (pc[s] # "idle" /\ IsPost(s)) =>
      /\ ~AllPresent(req[s].body) => (pc[s] = "done" /\ resp[s] = Incomplete)
      /\ AllGiven(req[s].body) => ~(pc[s] = "done" /\ resp[s] = Incomplete)

\* C10: a request calls pool.query at most once; when the insert or the
\* select fails, the handler's next step sends 500 with the message of the
\* error, without another call and without a change to the table, and leaves
\* the slot ready for the next request.
C10_FailureAnsweredOnce ==
  [][ \A s \in Slots :
        /\ calls'[s] <= 1
        /\ (pc[s] \in {"awaitInsert", "awaitSelect"} /\ Acted(s) /\ ~dbres'[s].ok) =>
             /\ rows' = rows
             /\ pc'[s] \in {"gotInsert", "gotSelect"}
        /\ (pc[s] \in {"gotInsert", "gotSelect"} /\ ~dbres[s].ok /\ Acted(s)) =>
             /\ pc'[s] = "done"
             /\ resp'[s].status = 500
             /\ resp'[s].details = dbres[s].error
             /\ calls'[s] = 1
             /\ rows' = rows
    ]_vars

\* Slot 2 never served, so the requests came one after another on slot 1: an
\* insert failed after drawing id 1, and the POST that followed was answered
\* 201 with id 2.
C10_Witness ==
  /\ pc[2] = "idle"
  /\ Created(1)
  /\ resp[1].post.id = 2
  /\ Len(rows) = 1

====
